---- MODULE Spec2Model ----
(***************************************************************************)
(* ec2_find_asg: an Ansible module that lists the Auto Scaling Groups of a *)
(* region and keeps those whose tags contain the search tags.              *)
(*                                                                         *)
(* Two specifications:                                                     *)
(*   Spec      one invocation of main(): argument handling, connection,    *)
(*             find() = describe_auto_scaling_groups() then match().       *)
(*   SpecProj  one call of get_properties() on one group object.           *)
(*                                                                         *)
(* Python values: a dict is a function whose domain is its key set; an     *)
(* optional value (None or a dict) is a record with an isNone flag; a list *)
(* is a sequence.  The code is read with the semantics of the interpreter  *)
(* it was written for (dict.iteritems exists).                             *)
(***************************************************************************)
EXTENDS Integers, Sequences, FiniteSets, TLC

VARIABLES
    pc,                 \* position of main()
    params,             \* module.params: [tags |-> optional dict]
    provider,           \* the groups of the region, in the provider's listing order
    region,             \* region returned by get_aws_connection_info
    connection,         \* "unset" | "client" | "falsy"
    as_groups,          \* response of describe_auto_scaling_groups()
    idx,                \* position of match()'s for loop in the response
    matching_as_groups_list,
    result,             \* how the process ended
    conn_calls,         \* number of boto3_conn calls made
    list_calls,         \* number of describe_auto_scaling_groups calls made
    list_error,         \* error raised by the list call, "" when none
    autoscaling_group,  \* get_properties: its argument
    properties,         \* get_properties: the dict under construction
    instance_facts,     \* get_properties: local dict
    ppc,                \* get_properties: position
    pidx                \* get_properties: position of the for loop

mainVars == <<pc, params, provider, region, connection, as_groups, idx,
              matching_as_groups_list, result, conn_calls, list_calls, list_error>>
projVars == <<autoscaling_group, properties, instance_facts, ppc, pidx>>
vars == <<mainVars, projVars>>

----------------------------------------------------------------------------
(* Bounds of the model *)

MaxGroups == 3          \* groups the region holds, at most
PageSize == 2           \* records the provider returns per list call
MaxInstances == 2       \* instances of a group, at most

Keys == {"env", "tier"}
TagValues(k) == IF k = "env" THEN {"prod", "staging"} ELSE {"web"}
Regions == {"us-west-1", "None"}
ProviderErrors == {"Unable to locate credentials",
                   "An error occurred (Throttling) when calling the DescribeAutoScalingGroups operation"}
HealthStatuses == {"Healthy", "Unhealthy", "Other"}
LifecycleStates == {"Pending", "InService", "Terminating", "Detaching"}
LaunchConfigs == {"lc-1"}

----------------------------------------------------------------------------
(* Python values *)

NoneVal == [isNone |-> TRUE]
Some(v) == [isNone |-> FALSE, val |-> v]

EmptyDict == [k \in {} |-> "x"]
Dicts ==
    UNION {{d \in [D -> UNION {TagValues(k) : k \in Keys}] :
                \A k \in D : d[k] \in TagValues(k)} : D \in SUBSET Keys}

\* d.iteritems() as a set of (key, value) pairs
Items(d) == {<<k, d[k]>> : k \in DOMAIN d}

\* dict(pairs) for a set of pairs in which no key occurs twice
DictOfItems(S) == [k \in {p[1] : p \in S} |-> (CHOOSE p \in S : p[1] = k)[2]]

\* dict((t["Key"], t["Value"]) for t in Tags): a later entry replaces an earlier one
DictOfTags(Tags) ==
    [k \in {Tags[i].Key : i \in DOMAIN Tags} |->
        Tags[CHOOSE i \in DOMAIN Tags :
                /\ Tags[i].Key = k
                /\ \A j \in DOMAIN Tags : j > i => Tags[j].Key # k].Value]

\* sequences over S of length at most n
SeqsUpTo(S, n) == UNION {[1..m -> S] : m \in 0..n}

\* tag lists as the provider delivers them: keys unique, any order
TagLists ==
    {t \in SeqsUpTo(UNION {[Key : {k}, Value : TagValues(k)] : k \in Keys},
                    Cardinality(Keys)) :
        \A i, j \in DOMAIN t : i # j => t[i].Key # t[j].Key}

Instance == [instance_id : 1..MaxInstances, health_status : HealthStatuses,
             lifecycle_state : LifecycleStates, launch_config_name : LaunchConfigs]

\* instance lists of a group: ids unique
InstanceLists ==
    {s \in SeqsUpTo(Instance, MaxInstances) :
        \A i, j \in DOMAIN s : i # j => s[i].instance_id # s[j].instance_id}

\* the instances every group of the listing carries (match never reads them)
ListedInstances ==
    <<[instance_id |-> 1, health_status |-> "Healthy",
       lifecycle_state |-> "InService", launch_config_name |-> "lc-1"]>>

\* the region's possible contents: the group at position n is named n
Listings ==
    UNION {{[n \in 1..m |-> [name |-> n, Tags |-> t[n], Instances |-> ListedInstances]] :
                t \in [1..m -> TagLists]} : m \in 0..MaxGroups}

NoResult == [kind |-> "none"]

FailJson(msg) == [kind |-> "fail_json", msg |-> msg]
\* variant: an empty list of matches reported as a failure
MutExitJson(kwargs) ==
    IF kwargs.as_groups = <<>>
    THEN FailJson("no matching Auto Scaling Groups")
    ELSE [kind |-> "exit_json", out |-> kwargs]

ExitJson(kwargs) == [kind |-> "exit_json", out |-> kwargs]
Uncaught(e) == [kind |-> "exception", error |-> e]

\* d[k] = v on a dict
SetItem(d, k, v) == (k :> v) @@ d

----------------------------------------------------------------------------
(* match(), lines 109-135 *)

\* line 126
AsGroupTags(as_group) == DictOfTags(as_group.Tags)

\* variant: the intersection taken over the keys alone
MutTagsIntersection(as_group_tags, search_tags) ==
    [k \in DOMAIN as_group_tags \cap DOMAIN search_tags |-> search_tags[k]]

\* line 127: dict(set.intersection(set(as_group_tags.iteritems()), set(search_tags.iteritems())))
TagsIntersection(as_group_tags, search_tags) ==
    DictOfItems(Items(as_group_tags) \cap Items(search_tags))

\* line 128
TagsMatch(as_group, search_tags) ==
    TagsIntersection(AsGroupTags(as_group), search_tags) = search_tags

\* variant: the group is put at the head of the list
MutListAppend(lst, as_group) == <<as_group>> \o lst

\* line 129
ListAppend(lst, as_group) == Append(lst, as_group)

----------------------------------------------------------------------------
(* The provider's list operation as the code calls it, line 152: no          *)
(* arguments, so one page of at most PageSize records, and a NextToken when  *)
(* more records remain.                                                      *)

FirstPage(listing) ==
    [AutoScalingGroups |-> SubSeq(listing, 1, IF Len(listing) < PageSize THEN Len(listing) ELSE PageSize),
     NextToken |-> Len(listing) > PageSize]

NoResponse == [AutoScalingGroups |-> <<>>, NextToken |-> FALSE]

----------------------------------------------------------------------------
(* main(), lines 157-188 *)

ProjIdle ==
    /\ autoscaling_group = [attrs |-> EmptyDict, instances |-> <<>>, tags |-> NoneVal]
    /\ properties = EmptyDict
    /\ instance_facts = EmptyDict
    /\ ppc = "idle"
    /\ pidx = 0

\* lines 159-169: the module object is built; tags is declared type='dict'
\* without required=True, so an invocation without tags has params['tags'] = None
Init ==
    /\ pc = "check_boto3"
    /\ params \in [tags : {NoneVal} \cup {Some(d) : d \in Dicts}]
    /\ provider \in Listings
    /\ region = "unset"
    /\ connection = "unset"
    /\ as_groups = NoResponse
    /\ idx = 0
    /\ matching_as_groups_list = <<>>
    /\ result = NoResult
    /\ conn_calls = 0
    /\ list_calls = 0
    /\ list_error = ""
    /\ ProjIdle

\* lines 171-172
CheckBoto3Missing ==
    /\ pc = "check_boto3"
    /\ result' = FailJson("boto3 required for this module")
    /\ pc' = "done"
    /\ UNCHANGED <<params, provider, region, connection, as_groups, idx,
                   matching_as_groups_list, conn_calls, list_calls, list_error, projVars>>

\* lines 171, 174
GetConnectionInfo ==
    /\ pc = "check_boto3"
    /\ \E r \in Regions : region' = r
    /\ pc' = "connect"
    /\ UNCHANGED <<params, provider, connection, as_groups, idx,
                   matching_as_groups_list, result, conn_calls, list_calls, list_error, projVars>>

\* lines 175-182: boto3_conn returns a client
ConnectOk ==
    /\ pc = "connect"
    /\ conn_calls' = conn_calls + 1
    /\ connection' = "client"
    /\ pc' = "find"
    /\ UNCHANGED <<params, provider, region, as_groups, idx,
                   matching_as_groups_list, result, list_calls, list_error, projVars>>

\* lines 182-183: boto3_conn returns nothing usable
ConnectFalsy ==
    /\ pc = "connect"
    /\ conn_calls' = conn_calls + 1
    /\ connection' = "falsy"
    /\ result' = FailJson(<<"failed to connect to AWS for the given region: %s", region>>)
    /\ pc' = "done"
    /\ UNCHANGED <<params, provider, region, as_groups, idx,
                   matching_as_groups_list, list_calls, list_error, projVars>>

\* lines 184-185: boto3_conn raises NoCredentialsError
ConnectNoCredentials ==
    /\ pc = "connect"
    /\ conn_calls' = conn_calls + 1
    /\ result' = FailJson("Unable to locate credentials")
    /\ pc' = "done"
    /\ UNCHANGED <<params, provider, region, connection, as_groups, idx,
                   matching_as_groups_list, list_calls, list_error, projVars>>

\* lines 187-188, 152: the list call returns its response
DescribeOk ==
    /\ pc = "find"
    /\ list_calls' = list_calls + 1
    /\ as_groups' = FirstPage(provider)
    /\ idx' = 1
    /\ matching_as_groups_list' = <<>>
    /\ pc' = "match"
    /\ UNCHANGED <<params, provider, region, connection, result, conn_calls, list_error, projVars>>

\* line 152 raises; neither find() nor main() has a handler around it
DescribeRaises ==
    /\ pc = "find"
    /\ list_calls' = list_calls + 1
    /\ \E e \in ProviderErrors :
        /\ list_error' = e
        /\ result' = Uncaught(e)
    /\ pc' = "done"
    /\ UNCHANGED <<params, provider, region, connection, as_groups, idx,
                   matching_as_groups_list, conn_calls, projVars>>

\* lines 125-129, one iteration with search_tags a dict
MatchStep ==
    /\ pc = "match"
    /\ idx <= Len(as_groups.AutoScalingGroups)
    /\ ~params.tags.isNone
    /\ LET as_group == as_groups.AutoScalingGroups[idx]
           search_tags == params.tags.val
       IN  matching_as_groups_list' =
               IF TagsMatch(as_group, search_tags)
               THEN ListAppend(matching_as_groups_list, as_group)
               ELSE matching_as_groups_list
    /\ idx' = idx + 1
    /\ UNCHANGED <<pc, params, provider, region, connection, as_groups, result,
                   conn_calls, list_calls, list_error, projVars>>

\* line 127 with search_tags = None: None has no iteritems
MatchStepNone ==
    /\ pc = "match"
    /\ idx <= Len(as_groups.AutoScalingGroups)
    /\ params.tags.isNone
    /\ result' = Uncaught("AttributeError: 'NoneType' object has no attribute 'iteritems'")
    /\ pc' = "done"
    /\ UNCHANGED <<params, provider, region, connection, as_groups, idx,
                   matching_as_groups_list, conn_calls, list_calls, list_error, projVars>>

\* lines 131-135, 154, 188: the loop is over; exit_json(**matching_as_groups)
MatchReturn ==
    /\ pc = "match"
    /\ idx > Len(as_groups.AutoScalingGroups)
    /\ result' = ExitJson([as_groups |-> matching_as_groups_list])
    /\ pc' = "done"
    /\ UNCHANGED <<params, provider, region, connection, as_groups, idx,
                   matching_as_groups_list, conn_calls, list_calls, list_error, projVars>>

Next ==
    \/ CheckBoto3Missing
    \/ GetConnectionInfo
    \/ ConnectOk
    \/ ConnectFalsy
    \/ ConnectNoCredentials
    \/ DescribeOk
    \/ DescribeRaises
    \/ MatchStep
    \/ MatchStepNone
    \/ MatchReturn

Spec == Init /\ [][Next]_vars

----------------------------------------------------------------------------
(* get_properties(), lines 62-106 *)

\* lines 55-59
ASG_ATTRIBUTES ==
    {"availability_zones", "default_cooldown", "desired_capacity",
     "health_check_period", "health_check_type", "launch_config_name",
     "load_balancers", "max_size", "min_size", "name", "placement_group",
     "termination_policies", "vpc_zone_identifier"}

CountKeys ==
    {"healthy_instances", "in_service_instances", "unhealthy_instances",
     "pending_instances", "viable_instances", "terminating_instances"}

LoadBalancerLists == {<<>>, <<"elb-1">>}

\* tag objects of a group object: absent (None), empty, or one tag
GroupTagAttrs ==
    {NoneVal, Some(<<>>)} \cup {Some(<<[key |-> "env", value |-> v]>>) : v \in TagValues("env")}

\* the attributes of a group object; attributes the function does not compute
\* with carry a value that stands for whatever the provider set
GroupAttrs(lbs) ==
    [a \in ASG_ATTRIBUTES |->
        IF a = "load_balancers" THEN lbs ELSE <<"value of", a>>]

GroupObjects ==
    {[attrs |-> GroupAttrs(lbs), instances |-> il, tags |-> t] :
        lbs \in LoadBalancerLists, il \in InstanceLists, t \in GroupTagAttrs}

\* lines 73-79
InitialProperties(group) ==
    [k \in ASG_ATTRIBUTES \cup CountKeys |->
        IF k \in ASG_ATTRIBUTES THEN group.attrs[k] ELSE 0]

\* line 82
InstanceIds(instances) == [n \in DOMAIN instances |-> instances[n].instance_id]

\* lines 85-87
Facts(i) == [health_status |-> i.health_status,
             lifecycle_state |-> i.lifecycle_state,
             launch_config_name |-> i.launch_config_name]

Incr(props, k) == SetItem(props, k, props[k] + 1)

\* variant: viable counted for Healthy or InService
MutCountViable(props, i) ==
    IF i.health_status = "Healthy" \/ i.lifecycle_state = "InService"
    THEN Incr(props, "viable_instances") ELSE props

\* lines 88-89
CountViable(props, i) ==
    IF i.health_status = "Healthy" /\ i.lifecycle_state = "InService"
    THEN Incr(props, "viable_instances") ELSE props

\* variant: only the status Unhealthy counts as unhealthy
MutCountHealth(props, i) ==
    IF i.health_status = "Healthy"
    THEN Incr(props, "healthy_instances")
    ELSE IF i.health_status = "Unhealthy"
         THEN Incr(props, "unhealthy_instances")
         ELSE props

\* lines 90-93
CountHealth(props, i) ==
    IF i.health_status = "Healthy"
    THEN Incr(props, "healthy_instances")
    ELSE Incr(props, "unhealthy_instances")

\* lines 94-99
CountLifecycle(props, i) ==
    LET p1 == IF i.lifecycle_state = "InService"
              THEN Incr(props, "in_service_instances") ELSE props
        p2 == IF i.lifecycle_state = "Terminating"
              THEN Incr(p1, "terminating_instances") ELSE p1
    IN  IF i.lifecycle_state = "Pending"
        THEN Incr(p2, "pending_instances") ELSE p2

\* line 104
TagsDict(tags) ==
    [k \in {tags[n].key : n \in DOMAIN tags} |->
        tags[CHOOSE n \in DOMAIN tags :
                /\ tags[n].key = k
                /\ \A m \in DOMAIN tags : m > n => tags[m].key # k].value]

MainIdle ==
    /\ pc = "idle"
    /\ params = [tags |-> NoneVal]
    /\ provider = <<>>
    /\ region = "unset"
    /\ connection = "unset"
    /\ as_groups = NoResponse
    /\ idx = 0
    /\ matching_as_groups_list = <<>>
    /\ result = NoResult
    /\ conn_calls = 0
    /\ list_calls = 0
    /\ list_error = ""

InitProj ==
    /\ MainIdle
    /\ autoscaling_group \in GroupObjects
    /\ properties = EmptyDict
    /\ instance_facts = EmptyDict
    /\ ppc = "begin"
    /\ pidx = 0

\* lines 73-79
PropsBegin ==
    /\ ppc = "begin"
    /\ properties' = InitialProperties(autoscaling_group)
    /\ ppc' = "test"
    /\ UNCHANGED <<autoscaling_group, instance_facts, pidx, mainVars>>

\* lines 81-83: the group has instances
PropsInstances ==
    /\ ppc = "test"
    /\ autoscaling_group.instances # <<>>
    /\ properties' = SetItem(properties, "instances", InstanceIds(autoscaling_group.instances))
    /\ instance_facts' = EmptyDict
    /\ pidx' = 1
    /\ ppc' = "loop"
    /\ UNCHANGED <<autoscaling_group, mainVars>>

\* variant: empty containers are stored for a group without instances
MutPropsNoInstances ==
    /\ ppc = "test"
    /\ autoscaling_group.instances = <<>>
    /\ properties' = SetItem(SetItem(properties, "instances", <<>>), "instance_facts", EmptyDict)
    /\ ppc' = "finish"
    /\ UNCHANGED <<autoscaling_group, instance_facts, pidx, mainVars>>

\* line 81: the group has no instances, lines 82-100 are skipped
PropsNoInstances ==
    /\ ppc = "test"
    /\ autoscaling_group.instances = <<>>
    /\ ppc' = "finish"
    /\ UNCHANGED <<autoscaling_group, properties, instance_facts, pidx, mainVars>>

\* lines 84-99, one iteration
PropsLoop ==
    /\ ppc = "loop"
    /\ pidx <= Len(autoscaling_group.instances)
    /\ LET i == autoscaling_group.instances[pidx]
       IN  /\ instance_facts' = SetItem(instance_facts, i.instance_id, Facts(i))
           /\ properties' = CountLifecycle(CountHealth(CountViable(properties, i), i), i)
    /\ pidx' = pidx + 1
    /\ UNCHANGED <<autoscaling_group, ppc, mainVars>>

\* line 100
PropsFacts ==
    /\ ppc = "loop"
    /\ pidx > Len(autoscaling_group.instances)
    /\ properties' = SetItem(properties, "instance_facts", instance_facts)
    /\ ppc' = "finish"
    /\ UNCHANGED <<autoscaling_group, instance_facts, pidx, mainVars>>

\* lines 101-106
PropsReturn ==
    /\ ppc = "finish"
    /\ LET p1 == SetItem(properties, "load_balancers", autoscaling_group.attrs["load_balancers"])
           t == autoscaling_group.tags
       IN  properties' = IF ~t.isNone /\ t.val # <<>>
                         THEN SetItem(p1, "tags", TagsDict(t.val))
                         ELSE p1
    /\ ppc' = "returned"
    /\ UNCHANGED <<autoscaling_group, instance_facts, pidx, mainVars>>

NextProj ==
    \/ PropsBegin
    \/ PropsInstances
    \/ PropsNoInstances
    \/ PropsLoop
    \/ PropsFacts
    \/ PropsReturn

SpecProj == InitProj /\ [][NextProj]_vars

----------------------------------------------------------------------------
(* Vocabulary of the properties *)

\* the group carries tag k with value v
GroupHasTag(g, k, v) == \E n \in DOMAIN g.Tags : g.Tags[n].Key = k /\ g.Tags[n].Value = v

\* every (key, value) pair of T is on the group
HasAllTags(g, T) == \A k \in DOMAIN T : GroupHasTag(g, k, T[k])

Range(seq) == {seq[n] : n \in DOMAIN seq}

\* out is in, with some elements left out and the order kept
IsSubsequence(out, in) ==
    \E f \in [DOMAIN out -> DOMAIN in] :
        /\ \A j \in DOMAIN out : out[j] = in[f[j]]
        /\ \A j, k \in DOMAIN out : j < k => f[j] < f[k]

\* the groups of in that carry all tags of T, in the order of in
Satisfying(in, T) ==
    LET Test(g) == HasAllTags(g, T) IN SelectSeq(in, Test)

ListSucceeded == list_calls > 0 /\ list_error = ""

Response == as_groups.AutoScalingGroups

Succeeded == pc = "done" /\ result.kind = "exit_json"

----------------------------------------------------------------------------
(* Properties of main(), find() and match(), checked under Spec *)

\* C1: match includes a group iff every (key, value) pair of the search tags
\* is on the group with exactly that value: extra tags do not exclude it, empty
\* search tags include every group, an absent key or another value excludes it.
\* Stated for every group the loop has passed, and so for the returned list.
MatchIffAllTags ==
    (pc \in {"match", "done"} /\ ~params.tags.isNone) =>
        \A n \in DOMAIN Response :
            n < idx =>
                (Response[n] \in Range(matching_as_groups_list)
                    <=> HasAllTags(Response[n], params.tags.val))

\* a returned list that holds a group with more tags than were searched for and
\* leaves out another group, the search tags being non-empty
MatchIffAllTagsWitness ==
    /\ Succeeded
    /\ ~params.tags.isNone
    /\ params.tags.val # EmptyDict
    /\ \E a, b \in DOMAIN Response :
        /\ Response[a] \in Range(result.out.as_groups)
        /\ Len(Response[a].Tags) > Cardinality(DOMAIN params.tags.val)
        /\ Response[b] \notin Range(result.out.as_groups)

\* C2: every element of the returned as_groups is a projection of a matching
\* group: it carries the six derived instance counts.
OutputIsProjected ==
    Succeeded =>
        \A j \in DOMAIN result.out.as_groups :
            CountKeys \subseteq DOMAIN result.out.as_groups[j]

\* C3: when tags is missing the invocation fails, and neither the client
\* connection nor the list operation is invoked.
MissingTagsFailsBeforeNetwork ==
    params.tags.isNone =>
        /\ conn_calls = 0
        /\ list_calls = 0
        /\ pc = "done" => result.kind = "fail_json"

\* C4: when the list call fails the invocation ends with one failure result
\* whose message is the provider's error message, without as_groups output and
\* without a second list call.
ListFailureIsReported ==
    (pc = "done" /\ list_error # "") =>
        /\ result = FailJson(list_error)
        /\ list_calls = 1

\* C5: every group of the region that carries the search tags is in as_groups,
\* whichever page of the listing it is on.
AllVisibleMatchesReturned ==
    (Succeeded /\ ~params.tags.isNone) =>
        \A n \in DOMAIN provider :
            HasAllTags(provider[n], params.tags.val) =>
                provider[n] \in Range(result.out.as_groups)

\* C8: when the list call succeeded and no returned group matches (the provider
\* returned no group, or none carries the search tags), the invocation ends in
\* success with as_groups = []; a failure always has another cause: no call of
\* the list operation, an error of the list operation, or absent search tags.
NoMatchIsEmptySuccess ==
    /\ (/\ pc = "done"
        /\ ListSucceeded
        /\ \/ Response = <<>>
           \/ /\ ~params.tags.isNone
              /\ \A n \in DOMAIN Response : ~HasAllTags(Response[n], params.tags.val))
       => result = [kind |-> "exit_json", out |-> [as_groups |-> <<>>]]
    /\ (pc = "done" /\ result.kind # "exit_json")
       => (list_calls = 0 \/ list_error # "" \/ params.tags.isNone)

\* the list call returned groups, none carries the search tags, the invocation ended
NoMatchIsEmptySuccessWitness ==
    /\ pc = "done"
    /\ ListSucceeded
    /\ ~params.tags.isNone
    /\ Len(Response) = PageSize
    /\ \A n \in DOMAIN Response : ~HasAllTags(Response[n], params.tags.val)

\* C9: the list match builds is an order-preserving subsequence of the listing
\* it was given, at every iteration; the returned list is the listing's groups
\* that carry the search tags, in listing order, hence a function of
\* (groups, search tags).
MatchKeepsOrder ==
    /\ pc \in {"match", "done"} => IsSubsequence(matching_as_groups_list, Response)
    /\ (Succeeded /\ ~params.tags.isNone) =>
            /\ IsSubsequence(result.out.as_groups, Response)
            /\ result.out.as_groups = Satisfying(Response, params.tags.val)

\* a returned list of two groups, with a group between them left out or not
MatchKeepsOrderWitness ==
    /\ Succeeded
    /\ Len(result.out.as_groups) >= 2
    /\ result.out.as_groups[1].name < result.out.as_groups[2].name

----------------------------------------------------------------------------
(* Properties of get_properties(), checked under SpecProj *)

Instances == autoscaling_group.instances

Returned == ppc = "returned"

\* C6: healthy_instances + unhealthy_instances is the number of instances,
\* whatever the health status and lifecycle state values are; during the loop
\* it is the number of instances passed.
HealthCountsPartition ==
    /\ ppc = "loop" =>
        properties["healthy_instances"] + properties["unhealthy_instances"] = pidx - 1
    /\ Returned =>
        properties["healthy_instances"] + properties["unhealthy_instances"] = Len(Instances)

\* a projection of two instances, one with a health status that is neither
\* Healthy nor Unhealthy, one with a lifecycle state outside the three counted
HealthCountsPartitionWitness ==
    /\ Returned
    /\ Len(Instances) >= 2
    /\ \E n \in DOMAIN Instances : Instances[n].health_status = "Other"
    /\ \E n \in DOMAIN Instances : Instances[n].lifecycle_state = "Detaching"

\* C7: a group without instances is projected without the fields instances and
\* instance_facts and with the six counts present and 0; a group with instances
\* is projected with both fields, instances listing the ids in order and
\* instance_facts holding the facts of each instance under its id.
InstanceFieldsOmittedWhenEmpty ==
    Returned =>
        /\ Instances = <<>> =>
            /\ "instances" \notin DOMAIN properties
            /\ "instance_facts" \notin DOMAIN properties
            /\ \A k \in CountKeys : k \in DOMAIN properties /\ properties[k] = 0
        /\ Instances # <<>> =>
            /\ "instances" \in DOMAIN properties
            /\ "instance_facts" \in DOMAIN properties
            /\ Len(properties["instances"]) = Len(Instances)
            /\ \A n \in DOMAIN Instances :
                properties["instances"][n] = Instances[n].instance_id
            /\ DOMAIN properties["instance_facts"] =
                    {Instances[n].instance_id : n \in DOMAIN Instances}
            /\ \A n \in DOMAIN Instances :
                LET f == properties["instance_facts"][Instances[n].instance_id]
                IN  /\ f.health_status = Instances[n].health_status
                    /\ f.lifecycle_state = Instances[n].lifecycle_state
                    /\ f.launch_config_name = Instances[n].launch_config_name

\* the projection of a group without instances
InstanceFieldsOmittedWitness ==
    /\ Returned
    /\ Instances = <<>>
    /\ properties["load_balancers"] # <<>>

\* C10: viable_instances is the number of instances both Healthy and InService,
\* so it is at most healthy_instances and at most in_service_instances; health
\* and lifecycle are counted independently: one Healthy/InService instance
\* followed by one Unhealthy/Pending instance gives viable 1, healthy 1,
\* unhealthy 1, in_service 1, pending 1, terminating 0.
ViableCount ==
    Returned =>
        /\ properties["viable_instances"] =
                Cardinality({n \in DOMAIN Instances :
                                /\ Instances[n].health_status = "Healthy"
                                /\ Instances[n].lifecycle_state = "InService"})
        /\ properties["viable_instances"] <= properties["healthy_instances"]
        /\ properties["viable_instances"] <= properties["in_service_instances"]
        /\ properties["in_service_instances"] =
                Cardinality({n \in DOMAIN Instances : Instances[n].lifecycle_state = "InService"})
        /\ properties["pending_instances"] =
                Cardinality({n \in DOMAIN Instances : Instances[n].lifecycle_state = "Pending"})
        /\ properties["terminating_instances"] =
                Cardinality({n \in DOMAIN Instances : Instances[n].lifecycle_state = "Terminating"})
        /\ (/\ Len(Instances) = 2
            /\ Instances[1].health_status = "Healthy"
            /\ Instances[1].lifecycle_state = "InService"
            /\ Instances[2].health_status = "Unhealthy"
            /\ Instances[2].lifecycle_state = "Pending")
           => /\ properties["viable_instances"] = 1
              /\ properties["healthy_instances"] = 1
              /\ properties["unhealthy_instances"] = 1
              /\ properties["in_service_instances"] = 1
              /\ properties["pending_instances"] = 1
              /\ properties["terminating_instances"] = 0

\* the projection of one Healthy/InService and one Unhealthy/Pending instance
ViableCountWitness ==
    /\ Returned
    /\ Len(Instances) = 2
    /\ Instances[1].health_status = "Healthy"
    /\ Instances[1].lifecycle_state = "InService"
    /\ Instances[2].health_status = "Unhealthy"
    /\ Instances[2].lifecycle_state = "Pending"
====
